---- MODULE Spec2Model ----
(***************************************************************************)
(* UniversalTime (src/UniversalTime_jake.hh): a time kept as three fields, *)
(* days (Int_t), seconds (Int_t) and nanoSeconds (Double_t), normalised by *)
(* Normalise() after construction and after += and -=.                     *)
(*                                                                         *)
(* nanoSeconds is modelled for integer-valued doubles below 2^31, where    *)
(* every double operation of the code (+=, -=, / 1.0e9, * 1.0e9 and the    *)
(* conversions to and from int) is exact.                                  *)
(***************************************************************************)
EXTENDS Integers, FiniteSets, Sequences, TLC

\* ---- bounds of the model ----
MaxDay == 2          \* raw days are drawn from -MaxDay..MaxDay
MaxOps == 2          \* += / -= applied to a since its construction

\* ---- constants of the program ----
NanoPerSec == 1000000000   \* 1.0e9
SecPerDay  == 86400        \* 60.0 * 60.0 * 24.0
MaxSecond  == 100000       \* main.C draws seconds from [-100000, 100000)

\* ---- raw constructor arguments ----
RawDays    == (0 - MaxDay)..MaxDay
RawSeconds == {0 - SecPerDay - 1, -1, 0, 1, MaxSecond}
RawNanos   == {-1, 0, 1, NanoPerSec}

Fields(d, s, n) == [days |-> d, seconds |-> s, nanoSeconds |-> n]

RawTriples == {Fields(d, s, n) : d \in RawDays, s \in RawSeconds, n \in RawNanos}

\* UniversalTime() : days(0), seconds(0), nanoSeconds(0)
Zero == Fields(0, 0, 0)

\* the adjustments Normalise can apply before the carry
BorrowAdj == {"seconds-=1", "days-=1"}
FoldAdj   == {"seconds+=1", "days+=1"}

\* ---- UniversalTime::TimeOrder ----
TimeOrder(t) ==
  IF t.days < 0 THEN FALSE
  ELSE IF t.days = 0 /\ t.seconds < 0 THEN FALSE
  ELSE IF t.days = 0 /\ t.seconds = 0 /\ t.nanoSeconds < 0 THEN FALSE
  ELSE TRUE

\* static_cast<int>( x / y ): the quotient truncated toward zero
StaticCastInt(x, y) ==
  IF x >= 0 THEN x \div y ELSE 0 - ((0 - x) \div y)

\* Borrow with the day borrow adding 86400 seconds but leaving days alone.
BorrowKeepsDay(t) ==
  IF TimeOrder(t)
  THEN LET t1 == IF t.nanoSeconds < 0
                 THEN [t EXCEPT !.seconds = @ - 1,
                                !.nanoSeconds = @ + NanoPerSec,
                                !.adj = @ \cup {"seconds-=1"}]
                 ELSE t
       IN IF t1.seconds < 0
          THEN [t1 EXCEPT !.seconds = @ + SecPerDay,
                          !.adj = @ \cup {"days-=1"}]
          ELSE t1
  ELSE t

\* ---- Normalise, first block: if (TimeOrder()) { borrow } ----
\* t carries the three fields and adj, the set of adjustments applied so far.
Borrow(t) ==
  IF TimeOrder(t)
  THEN LET t1 == IF t.nanoSeconds < 0
                 THEN [t EXCEPT !.seconds = @ - 1,
                                !.nanoSeconds = @ + NanoPerSec,
                                !.adj = @ \cup {"seconds-=1"}]
                 ELSE t
       IN IF t1.seconds < 0
          THEN [t1 EXCEPT !.days = @ - 1,
                          !.seconds = @ + SecPerDay,
                          !.adj = @ \cup {"days-=1"}]
          ELSE t1
  ELSE t

\* Fold without its guard: the fold adjustments applied whatever the sign test says.
FoldUnguarded(t) ==
  LET t1 == IF t.nanoSeconds > 0
            THEN [t EXCEPT !.seconds = @ + 1,
                           !.nanoSeconds = @ - NanoPerSec,
                           !.adj = @ \cup {"seconds+=1"}]
            ELSE t
  IN IF t1.seconds > 0
     THEN [t1 EXCEPT !.days = @ + 1,
                     !.seconds = @ - SecPerDay,
                     !.adj = @ \cup {"days+=1"}]
     ELSE t1

\* ---- Normalise, second block: if (!TimeOrder()) { fold } ----
Fold(t) ==
  IF ~TimeOrder(t)
  THEN LET t1 == IF t.nanoSeconds > 0
                 THEN [t EXCEPT !.seconds = @ + 1,
                                !.nanoSeconds = @ - NanoPerSec,
                                !.adj = @ \cup {"seconds+=1"}]
                 ELSE t
       IN IF t1.seconds > 0
          THEN [t1 EXCEPT !.days = @ + 1,
                          !.seconds = @ - SecPerDay,
                          !.adj = @ \cup {"days+=1"}]
          ELSE t1
  ELSE t

\* Carry that moves whole seconds out of nanoSeconds but forgets the days carry.
CarryNanosOnly(t) ==
  LET overflowSeconds == StaticCastInt(t.nanoSeconds, NanoPerSec)
  IN [t EXCEPT !.seconds = @ + overflowSeconds,
               !.nanoSeconds = @ - overflowSeconds * NanoPerSec]

\* ---- Normalise, the truncating carry ----
Carry(t) ==
  LET overflowSeconds == StaticCastInt(t.nanoSeconds, NanoPerSec)
      s1 == t.seconds + overflowSeconds
      n1 == t.nanoSeconds - overflowSeconds * NanoPerSec
      overflowDays == StaticCastInt(s1, SecPerDay)
  IN [t EXCEPT !.days = @ + overflowDays,
               !.seconds = s1 - overflowDays * SecPerDay,
               !.nanoSeconds = n1]

\* ---- UniversalTime::Normalise ----
\* The result has the three fields and adj, the adjustments that were applied.
Normalise(t) ==
  Carry(Fold(Borrow([days |-> t.days, seconds |-> t.seconds,
                     nanoSeconds |-> t.nanoSeconds, adj |-> {}])))

Value(n) == Fields(n.days, n.seconds, n.nanoSeconds)

\* the fields of *this right before the Normalise() call of += and -=
PlusFields(x, rhs) ==
  Fields(x.days + rhs.days, x.seconds + rhs.seconds, x.nanoSeconds + rhs.nanoSeconds)

MinusFields(x, rhs) ==
  Fields(x.days - rhs.days, x.seconds - rhs.seconds, x.nanoSeconds - rhs.nanoSeconds)

\* ---- comparison operators ----
OpEq(x, y) ==
  x.days = y.days /\ x.seconds = y.seconds /\ x.nanoSeconds = y.nanoSeconds

OpLt(x, y) ==
  IF x.days > y.days THEN FALSE
  ELSE IF x.days = y.days /\ x.seconds > y.seconds THEN FALSE
  ELSE IF x.days = y.days /\ x.seconds = y.seconds
          /\ x.nanoSeconds >= y.nanoSeconds THEN FALSE
  ELSE TRUE

OpLe(x, y) == OpLt(x, y) \/ OpEq(x, y)

OpGt(x, y) == ~OpLe(x, y)

OpGe(x, y) == OpGt(x, y) \/ OpEq(x, y)

\* operator+ and operator-- return a reference to the temporary
\* UniversalTime(*this), which is destroyed when the function returns: what
\* the caller reads is the temporary's last value or whatever replaced it.
Indeterminate == {Fields(0, 0, 0), Fields(-1, -1, -1)}

\* op is the last statement executed: b is declared, then a, then a is
\* changed by up to MaxOps of += and -=, then one expression is evaluated.
Mutating == {"ctorA", "+=", "-=", "+=-="}

VARIABLES a, b, rawB, r, prev, orig, op, pre, adj, cmp, nOps

vars == <<a, b, rawB, r, prev, orig, op, pre, adj, cmp, nOps>>

NoCmp == [lt |-> FALSE, eq |-> FALSE, gt |-> FALSE, le |-> FALSE, ge |-> FALSE]

Init ==
  /\ a = Zero
  /\ b = Zero
  /\ rawB = Zero
  /\ r = Zero
  /\ prev = Zero
  /\ orig = Zero
  /\ op = "init"
  /\ pre = Zero
  /\ adj = {}
  /\ cmp = NoCmp
  /\ nOps = 0

\* UniversalTime a(days_, seconds_, nanoSeconds_), declared after b
ConstructA ==
  \E raw \in RawTriples :
    LET n == Normalise(raw) IN
    /\ op = "ctorB"
    /\ a' = Value(n)
    /\ pre' = raw
    /\ adj' = n.adj
    /\ op' = "ctorA"
    /\ nOps' = 0
    /\ UNCHANGED <<b, rawB, r, prev, orig, cmp>>

\* UniversalTime b(days_, seconds_, nanoSeconds_), the first declaration
ConstructB ==
  \E raw \in RawTriples :
    LET n == Normalise(raw) IN
    /\ op = "init"
    /\ b' = Value(n)
    /\ rawB' = raw
    /\ pre' = raw
    /\ adj' = n.adj
    /\ op' = "ctorB"
    /\ UNCHANGED <<a, r, prev, orig, cmp, nOps>>

\* a += b
PlusEq ==
  /\ op \in Mutating
  /\ nOps < MaxOps
  /\ LET n == Normalise(PlusFields(a, b)) IN
     /\ a' = Value(n)
     /\ pre' = PlusFields(a, b)
     /\ adj' = n.adj
  /\ prev' = a
  /\ orig' = a
  /\ op' = "+="
  /\ nOps' = nOps + 1
  /\ UNCHANGED <<b, rawB, r, cmp>>

\* a -= b
MinusEq ==
  /\ op \in Mutating
  /\ nOps < MaxOps
  /\ LET n == Normalise(MinusFields(a, b)) IN
     /\ a' = Value(n)
     /\ pre' = MinusFields(a, b)
     /\ adj' = n.adj
  /\ prev' = a
  /\ orig' = IF op = "+=" THEN orig ELSE a
  /\ op' = IF op = "+=" THEN "+=-=" ELSE "-="
  /\ nOps' = nOps + 1
  /\ UNCHANGED <<b, rawB, r, cmp>>

\* r = a + b
OperatorPlus ==
  /\ op \in Mutating
  /\ LET n == Normalise(PlusFields(a, b)) IN
     /\ r' \in {Value(n)} \cup Indeterminate
     /\ pre' = PlusFields(a, b)
     /\ adj' = n.adj
  /\ op' = "+"
  /\ UNCHANGED <<a, b, rawB, prev, orig, cmp, nOps>>

\* r = a.operator--(b)
OperatorMinusMinus ==
  /\ op \in Mutating
  /\ LET n == Normalise(MinusFields(a, b)) IN
     /\ r' \in {Value(n)} \cup Indeterminate
     /\ pre' = MinusFields(a, b)
     /\ adj' = n.adj
  /\ op' = "--"
  /\ UNCHANGED <<a, b, rawB, prev, orig, cmp, nOps>>

\* a < b, a == b, a > b, a <= b, a >= b
Compare ==
  /\ op \in Mutating
  /\ cmp' = [lt |-> OpLt(a, b), eq |-> OpEq(a, b), gt |-> OpGt(a, b),
             le |-> OpLe(a, b), ge |-> OpGe(a, b)]
  /\ op' = "cmp"
  /\ UNCHANGED <<a, b, rawB, r, prev, orig, pre, adj, nOps>>

Next ==
  \/ ConstructA
  \/ ConstructB
  \/ PlusEq
  \/ MinusEq
  \/ OperatorPlus
  \/ OperatorMinusMinus
  \/ Compare

Spec == Init /\ [][Next]_vars

\* ---- the instant a triple denotes ----
\* days*86400 + seconds + nanoSeconds*1e-9 as <<whole seconds, nanoseconds in
\* [0, 1e9)>>: two triples denote the same instant iff the pairs are equal.
Instant(t) ==
  <<t.days * SecPerDay + t.seconds + (t.nanoSeconds \div NanoPerSec),
    t.nanoSeconds % NanoPerSec>>

InstAdd(x, y) ==
  <<x[1] + y[1] + ((x[2] + y[2]) \div NanoPerSec), (x[2] + y[2]) % NanoPerSec>>

InstSub(x, y) ==
  <<x[1] - y[1] + ((x[2] - y[2]) \div NanoPerSec), (x[2] - y[2]) % NanoPerSec>>

InstLess(x, y) == x[1] < y[1] \/ (x[1] = y[1] /\ x[2] < y[2])

Canonical(t) ==
  /\ 0 <= t.seconds /\ t.seconds < SecPerDay
  /\ 0 <= t.nanoSeconds /\ t.nanoSeconds < NanoPerSec

SameSign(t) ==
  \/ t.days >= 0 /\ t.seconds >= 0 /\ t.nanoSeconds >= 0
  \/ t.days <= 0 /\ t.seconds <= 0 /\ t.nanoSeconds <= 0

WithinUnit(t) ==
  /\ 0 - SecPerDay < t.seconds /\ t.seconds < SecPerDay
  /\ 0 - NanoPerSec < t.nanoSeconds /\ t.nanoSeconds < NanoPerSec

\* C1: every value obtained by construction, += or -= is canonical:
\* 0 <= seconds < 86400 and 0 <= nanoSeconds < 1e9.
C1_Canonical == Canonical(a) /\ Canonical(b)

\* C2: Normalise preserves the denoted instant, so a constructed value denotes
\* the instant of its raw triple, a += b denotes the sum of the operands'
\* instants (whichever operand comes first) and a -= b their difference.
C2_InstantPreserved ==
  /\ op \in Mutating => Instant(a) = Instant(pre)
  /\ op = "ctorB" => Instant(b) = Instant(pre)
  /\ op = "+=" =>
       /\ Instant(a) = InstAdd(Instant(prev), Instant(b))
       /\ Instant(a) = Instant(Value(Normalise(PlusFields(b, prev))))
  /\ op \in {"-=", "+=-="} => Instant(a) = InstSub(Instant(prev), Instant(b))

\* a += b whose Normalise applied a borrow or a fold and changed the fields
C2_Witness == op = "+=" /\ adj # {} /\ a # pre

\* C3: UniversalTime(0,0,0) -= UniversalTime(0,0,1.0) gives days = -1,
\* seconds = 86399, nanoSeconds = 999999999.
C3_BorrowOneDay ==
  (op = "-=" /\ nOps = 1 /\ prev = Zero /\ rawB = Fields(0, 0, 1))
    => a = Fields(-1, SecPerDay - 1, NanoPerSec - 1)

\* C4: two values constructed from raw triples that denote the same instant
\* compare equal with operator==.
C4_UniqueRepresentation ==
  (op = "cmp" /\ nOps = 0 /\ Instant(pre) = Instant(rawB)) => cmp.eq

\* C5: exactly one of a < b, a == b, a > b holds and each of <, ==, >, <=, >=
\* agrees with the comparison of the instants of a and b.
C5_TotalOrder ==
  op = "cmp" =>
    /\ (cmp.lt /\ ~cmp.eq /\ ~cmp.gt) \/ (~cmp.lt /\ cmp.eq /\ ~cmp.gt)
         \/ (~cmp.lt /\ ~cmp.eq /\ cmp.gt)
    /\ cmp.lt <=> InstLess(Instant(a), Instant(b))
    /\ cmp.eq <=> (Instant(a) = Instant(b))
    /\ cmp.gt <=> InstLess(Instant(b), Instant(a))
    /\ cmp.le <=> ~InstLess(Instant(b), Instant(a))
    /\ cmp.ge <=> ~InstLess(Instant(a), Instant(b))

\* C6: adding UniversalTime(0,0,0) changes nothing: x += UniversalTime(0,0,0)
\* leaves the three components of a constructed x unchanged, and
\* UniversalTime(0,0,0) + x == x (where the reference operator+ returns still
\* reads the value of its temporary).
C6_AdditiveIdentity ==
  /\ (op = "+=" /\ nOps = 1 /\ rawB = Zero) => OpEq(a, prev)
  /\ (op = "+" /\ nOps = 0 /\ a = Zero /\ r = Value(Normalise(pre))) => OpEq(r, b)

\* C7: adding b to a and then subtracting b gives a value equal to a.
C7_Inverse == op = "+=-=" => OpEq(a, orig)

\* C8: one run of Normalise applies one sign-reconciliation phase only: a raw
\* triple that is non-negative under TimeOrder undergoes no fold adjustment and
\* one that is negative undergoes no borrow adjustment.
C8_OnePhase ==
  /\ TimeOrder(pre) => adj \cap FoldAdj = {}
  /\ ~TimeOrder(pre) => adj \cap BorrowAdj = {}

\* C8 as amended: TimeOrder is evaluated before each phase. A raw triple that is
\* negative under it undergoes no borrow adjustment; one that is non-negative
\* undergoes a fold adjustment only when days = 1 and the borrow of that day
\* leaves seconds negative, and then only seconds += 1, after days -= 1.
C8_PhasesAmended ==
  /\ ~TimeOrder(pre) => adj \cap BorrowAdj = {}
  /\ (TimeOrder(pre) /\ adj \cap FoldAdj # {}) =>
       /\ pre.days = 1
       /\ "days-=1" \in adj
       /\ adj \cap FoldAdj = {"seconds+=1"}

\* a non-negative raw triple whose Normalise borrowed a day and then folded
C8_Witness == TimeOrder(pre) /\ "days-=1" \in adj /\ "seconds+=1" \in adj

\* C9: after Normalise the three components never disagree in sign: they are
\* all >= 0 or all <= 0.
C9_SameSign == SameSign(a) /\ SameSign(b)

\* C10: after Normalise nanoSeconds is less than one second and seconds less
\* than one day in absolute value.
C10_MagnitudeBound == WithinUnit(a) /\ WithinUnit(b)

\* a constructed from a raw triple with a whole day in seconds and a whole
\* second in nanoSeconds, both carried
C10_Witness ==
  /\ op = "ctorA"
  /\ pre.seconds >= SecPerDay
  /\ pre.nanoSeconds >= NanoPerSec
  /\ a.days = pre.days + 1

====
